---- MODULE Spec2Model ----
(***************************************************************************)
(* A model of package bee (src/bee.go): a Pool that admits tasks through a *)
(* buffered channel used as a semaphore, runs each admitted task in its    *)
(* own goroutine, and stops admitting once its done channel is closed.     *)
(*                                                                         *)
(* Submitters are the goroutines calling Run / RunWithContext /            *)
(* RunWithContextAndIndex (the first two only wrap the task body and call  *)
(* the third).  Tasks are the goroutines started by line 154.  Each step   *)
(* of the model is one operation on shared memory (a channel operation or  *)
(* an atomic add), so every interleaving the Go scheduler can produce is a *)
(* behaviour of Spec.                                                      *)
(*                                                                         *)
(* A select that finds no case ready parks its goroutine on the three      *)
(* channels; the first channel operation that makes a case ready (a close, *)
(* or a receive from p.work) resolves the parked select with that case, in *)
(* the same step.                                                          *)
(***************************************************************************)
EXTENDS Integers, FiniteSets, Sequences, TLC

\* Bounds of the model.
NSub == 2          \* goroutines that submit
MaxCalls == 2      \* submission calls made in total (hence tasks started)
MaxSize == 2       \* capacities given to New: 0..MaxSize
MaxExit == 2       \* calls of Exit made in total

Subs == 1..NSub
Tasks == 1..MaxCalls

VARIABLES
    size,       \* cap(p.work), the size given to New
    ctxDone,    \* p.ctx.Done() is closed (the external context is cancelled)
    done,       \* p.done is closed
    once,       \* the sync.OnceFunc behind p.closeDone has been used
    closes,     \* number of times close(done) was executed without panicking
    work,       \* len(p.work): reservations held in the admission channel
    running,    \* p.running
    worked,     \* p.worked
    index,      \* p.index
    fatal,      \* "none", or why the process died: an unrecovered panic
    spc,        \* submitter -> "idle" | "select" (about to evaluate the select)
                \*   | "parked" (waiting in the select) | "ctxcase" (woken by the
                \*   cancellation, before line 148) | "donecase" (woken by the
                \*   close of p.done, before line 151) | "reserved"
    res,        \* submitter -> result of its latest call: "none" | "true" | "false"
    atClosed,   \* submitter -> it is in a call that began with p.done closed
    atCancelled,\* submitter -> it is in a call that began with the context
                \*              cancelled and the pool idle and open
    calls,      \* submission calls begun so far
    exits,      \* calls of Exit made so far
    ntasks,     \* goroutines started by line 154 so far
    tpc,        \* task -> "none" | "spawned" | "body" | "released"
                \*         | "decremented" | "cleaned"
    fault,      \* task -> its body panicked
    panicking,  \* task -> its goroutine is panicking (the panic was not recovered)
    idx         \* task -> the index its body received (0: none yet)

poolVars == <<size, ctxDone, done, once, closes, work, running, worked, index, fatal>>
subVars == <<spc, res, atClosed, atCancelled, calls, exits>>
taskVars == <<ntasks, tpc, fault, panicking, idx>>
vars == <<poolVars, subVars, taskVars>>

\* New (lines 85-97): an open pool of the given size with zero counters.
Init ==
    /\ size \in 0..MaxSize
    /\ ctxDone = FALSE
    /\ done = FALSE
    /\ once = FALSE
    /\ closes = 0
    /\ work = 0
    /\ running = 0
    /\ worked = 0
    /\ index = 0
    /\ fatal = "none"
    /\ spc = [s \in Subs |-> "idle"]
    /\ res = [s \in Subs |-> "none"]
    /\ atClosed = [s \in Subs |-> FALSE]
    /\ atCancelled = [s \in Subs |-> FALSE]
    /\ calls = 0
    /\ exits = 0
    /\ ntasks = 0
    /\ tpc = [t \in Tasks |-> "none"]
    /\ fault = [t \in Tasks |-> FALSE]
    /\ panicking = [t \in Tasks |-> FALSE]
    /\ idx = [t \in Tasks |-> 0]

\* The process is alive: no panic has reached the top of a goroutine.
Alive == fatal = "none"

\* The submitters waiting in the select of line 146.
Parked == {s \in Subs : spc[s] = "parked"}

----------------------------------------------------------------------------
\* The one-shot close of p.done.

\* close(done), line 89: closing a closed channel panics.
CloseChan ==
    IF done
    THEN /\ fatal' = "closepanic"
         /\ UNCHANGED <<done, closes>>
    ELSE /\ done' = TRUE
         /\ closes' = closes + 1
         /\ UNCHANGED fatal

closeDoneNoOnce ==
    /\ once' = TRUE
    /\ CloseChan

\* p.closeDone, line 89: sync.OnceFunc runs close(done) on the first call only.
closeDone ==
    IF once
    THEN UNCHANGED <<once, done, closes, fatal>>
    ELSE /\ once' = TRUE
         /\ CloseChan

\* The close of p.done resolves every select parked on it with the case
\* <-p.done (line 150).
WokenByClose == IF ~done /\ done' THEN Parked ELSE {}

ExitWithoutWake ==
    /\ Alive
    /\ exits < MaxExit
    /\ exits' = exits + 1
    /\ closeDone
    /\ UNCHANGED <<size, ctxDone, work, running, worked, index>>
    /\ UNCHANGED <<spc, res, atClosed, atCancelled, calls>>
    /\ UNCHANGED taskVars

ExitAndDrain ==
    /\ Alive
    /\ exits < MaxExit
    /\ exits' = exits + 1
    /\ closeDone
    /\ spc' = [x \in Subs |-> IF x \in WokenByClose THEN "donecase" ELSE spc[x]]
    /\ work' = 0
    /\ UNCHANGED <<size, ctxDone, running, worked, index>>
    /\ UNCHANGED <<res, atClosed, atCancelled, calls>>
    /\ UNCHANGED taskVars

\* Exit, lines 168-170.
Exit ==
    /\ Alive
    /\ exits < MaxExit
    /\ exits' = exits + 1
    /\ closeDone
    /\ spc' = [x \in Subs |-> IF x \in WokenByClose THEN "donecase" ELSE spc[x]]
    /\ UNCHANGED <<size, ctxDone, work, running, worked, index>>
    /\ UNCHANGED <<res, atClosed, atCancelled, calls>>
    /\ UNCHANGED taskVars

CancelClosesDone ==
    /\ Alive
    /\ ~ctxDone
    /\ ctxDone' = TRUE
    /\ closeDone
    /\ spc' = [x \in Subs |-> IF x \in Parked THEN "ctxcase" ELSE spc[x]]
    /\ UNCHANGED <<size, work, running, worked, index>>
    /\ UNCHANGED <<res, atClosed, atCancelled, calls, exits>>
    /\ UNCHANGED taskVars

\* The embedding application cancels the context given to New: the close of
\* p.ctx.Done() resolves every parked select with the case of line 147.
Cancel ==
    /\ Alive
    /\ ~ctxDone
    /\ ctxDone' = TRUE
    /\ spc' = [x \in Subs |-> IF x \in Parked THEN "ctxcase" ELSE spc[x]]
    /\ UNCHANGED <<size, done, once, closes, work, running, worked, index, fatal>>
    /\ UNCHANGED <<res, atClosed, atCancelled, calls, exits>>
    /\ UNCHANGED taskVars

----------------------------------------------------------------------------
\* A submission: RunWithContextAndIndex, lines 145-165.

\* A submitter enters RunWithContextAndIndex and reaches the select.
Call(s) ==
    /\ Alive
    /\ spc[s] = "idle"
    /\ calls < MaxCalls
    /\ calls' = calls + 1
    /\ spc' = [spc EXCEPT ![s] = "select"]
    /\ res' = [res EXCEPT ![s] = "none"]
    /\ atClosed' = [atClosed EXCEPT ![s] = done]
    /\ atCancelled' = [atCancelled EXCEPT ![s] = ctxDone /\ ~done /\ work = 0]
    /\ UNCHANGED exits
    /\ UNCHANGED poolVars
    /\ UNCHANGED taskVars

\* The communications of the select that can proceed.  Go picks one of the
\* ready cases by a uniform pseudo-random choice, so each ready case is a
\* possible step.
CtxReady == ctxDone
DoneReady == done
WorkReadyOffByOne == work <= size
WorkReadyMinOne == work < (IF size = 0 THEN 1 ELSE size)
\* A send on the buffered channel p.work proceeds when the buffer has room.
WorkReady == work < size

\* The select finds no case ready (line 146): the goroutine parks.
Park(s) ==
    /\ Alive
    /\ spc[s] = "select"
    /\ ~CtxReady /\ ~DoneReady /\ ~WorkReady
    /\ spc' = [spc EXCEPT ![s] = "parked"]
    /\ UNCHANGED poolVars
    /\ UNCHANGED <<res, atClosed, atCancelled, calls, exits>>
    /\ UNCHANGED taskVars

\* case <-p.ctx.Done(), lines 147-149: p.closeDone(); return false.
SelectCtx(s) ==
    /\ Alive
    /\ \/ spc[s] = "select" /\ CtxReady
       \/ spc[s] = "ctxcase"
    /\ closeDone
    /\ spc' = [x \in Subs |-> IF x = s THEN "idle"
                             ELSE IF x \in WokenByClose THEN "donecase" ELSE spc[x]]
    /\ res' = [res EXCEPT ![s] = "false"]
    /\ UNCHANGED <<size, ctxDone, work, running, worked, index>>
    /\ atClosed' = [atClosed EXCEPT ![s] = FALSE]
    /\ atCancelled' = [atCancelled EXCEPT ![s] = FALSE]
    /\ UNCHANGED <<calls, exits>>
    /\ UNCHANGED taskVars

SelectDoneOrDefault(s) ==
    /\ Alive
    /\ \/ spc[s] = "select" /\ (DoneReady \/ ~WorkReady)
       \/ spc[s] = "donecase"
    /\ spc' = [spc EXCEPT ![s] = "idle"]
    /\ res' = [res EXCEPT ![s] = "false"]
    /\ UNCHANGED poolVars
    /\ atClosed' = [atClosed EXCEPT ![s] = FALSE]
    /\ atCancelled' = [atCancelled EXCEPT ![s] = FALSE]
    /\ UNCHANGED <<calls, exits>>
    /\ UNCHANGED taskVars

\* case <-p.done, lines 150-151: return false.
SelectDone(s) ==
    /\ Alive
    /\ \/ spc[s] = "select" /\ DoneReady
       \/ spc[s] = "donecase"
    /\ spc' = [spc EXCEPT ![s] = "idle"]
    /\ res' = [res EXCEPT ![s] = "false"]
    /\ UNCHANGED poolVars
    /\ atClosed' = [atClosed EXCEPT ![s] = FALSE]
    /\ atCancelled' = [atCancelled EXCEPT ![s] = FALSE]
    /\ UNCHANGED <<calls, exits>>
    /\ UNCHANGED taskVars

\* case p.work <- struct{}{}, line 152: a slot is reserved.
SelectWork(s) ==
    /\ Alive
    /\ spc[s] = "select"
    /\ WorkReady
    /\ work' = work + 1
    /\ spc' = [spc EXCEPT ![s] = "reserved"]
    /\ UNCHANGED <<size, ctxDone, done, once, closes, running, worked, index, fatal>>
    /\ UNCHANGED <<res, atClosed, atCancelled, calls, exits>>
    /\ UNCHANGED taskVars

DispatchNoCount(s) ==
    /\ Alive
    /\ spc[s] = "reserved"
    /\ ntasks' = ntasks + 1
    /\ tpc' = [tpc EXCEPT ![ntasks + 1] = "spawned"]
    /\ spc' = [spc EXCEPT ![s] = "idle"]
    /\ res' = [res EXCEPT ![s] = "true"]
    /\ UNCHANGED poolVars
    /\ atClosed' = [atClosed EXCEPT ![s] = FALSE]
    /\ atCancelled' = [atCancelled EXCEPT ![s] = FALSE]
    /\ UNCHANGED <<calls, exits>>
    /\ UNCHANGED <<fault, panicking, idx>>

\* Lines 153-163: p.running.Add(1); go func(){...}(); return true.
Dispatch(s) ==
    /\ Alive
    /\ spc[s] = "reserved"
    /\ running' = running + 1
    /\ ntasks' = ntasks + 1
    /\ tpc' = [tpc EXCEPT ![ntasks + 1] = "spawned"]
    /\ spc' = [spc EXCEPT ![s] = "idle"]
    /\ res' = [res EXCEPT ![s] = "true"]
    /\ UNCHANGED <<size, ctxDone, done, once, closes, work, worked, index, fatal>>
    /\ atClosed' = [atClosed EXCEPT ![s] = FALSE]
    /\ atCancelled' = [atCancelled EXCEPT ![s] = FALSE]
    /\ UNCHANGED <<calls, exits>>
    /\ UNCHANGED <<fault, panicking, idx>>

----------------------------------------------------------------------------
\* A task: the goroutine of lines 154-162.

TaskStartPostIncrement(t) ==
    /\ Alive
    /\ tpc[t] = "spawned"
    /\ index' = index + 1
    /\ idx' = [idx EXCEPT ![t] = index]
    /\ tpc' = [tpc EXCEPT ![t] = "body"]
    /\ UNCHANGED <<size, ctxDone, done, once, closes, work, running, worked, fatal>>
    /\ UNCHANGED subVars
    /\ UNCHANGED <<ntasks, fault, panicking>>

TaskStartLoad(t) ==
    /\ Alive
    /\ tpc[t] = "spawned"
    /\ idx' = [idx EXCEPT ![t] = index]
    /\ tpc' = [tpc EXCEPT ![t] = "body"]
    /\ UNCHANGED poolVars
    /\ UNCHANGED subVars
    /\ UNCHANGED <<ntasks, fault, panicking>>

\* Line 161, the argument p.index.Add(1) of the call of f.
TaskStart(t) ==
    /\ Alive
    /\ tpc[t] = "spawned"
    /\ index' = index + 1
    /\ idx' = [idx EXCEPT ![t] = index + 1]
    /\ tpc' = [tpc EXCEPT ![t] = "body"]
    /\ UNCHANGED <<size, ctxDone, done, once, closes, work, running, worked, fatal>>
    /\ UNCHANGED subVars
    /\ UNCHANGED <<ntasks, fault, panicking>>

\* The builtin recover stops a panic only when it is called directly by a
\* deferred function (the Go specification, "Handling panics").
Recover(isPanicking, calledByDeferredFunction) ==
    isPanicking /\ calledByDeferredFunction

\* Line 160, defer recover(): the deferred call is recover itself, so no
\* deferred function calls it.
RecoverCalledByDeferredFunction == FALSE

\* Line 156, <-p.work.  With a send of line 152 parked on the full channel,
\* the receive completes that send (the slot passes to the parked submitter
\* and len(p.work) stays); otherwise the buffer loses one element.
ReleaseSlot ==
    IF Parked = {}
    THEN /\ work' = work - 1
         /\ UNCHANGED spc
    ELSE /\ \E p \in Parked : spc' = [spc EXCEPT ![p] = "reserved"]
         /\ UNCHANGED work

\* Lines 161, 160 and 156: the body f returns or panics, the deferred
\* recover() runs, and the deferred function's <-p.work releases the slot.
\* A long-running body is a task that stays at "body".
TaskBodyNoDefer(t) ==
    /\ Alive
    /\ tpc[t] = "body"
    /\ \E f \in BOOLEAN :
        /\ fault' = [fault EXCEPT ![t] = f]
        /\ panicking' = [panicking EXCEPT ![t] = f]
        /\ IF f
           THEN /\ tpc' = [tpc EXCEPT ![t] = "cleaned"]
                /\ UNCHANGED <<work, spc>>
           ELSE /\ work > 0
                /\ ReleaseSlot
                /\ tpc' = [tpc EXCEPT ![t] = "released"]
    /\ UNCHANGED <<size, ctxDone, done, once, closes, running, worked, index, fatal>>
    /\ UNCHANGED <<res, atClosed, atCancelled, calls, exits>>
    /\ UNCHANGED <<ntasks, idx>>

TaskBody(t) ==
    /\ Alive
    /\ tpc[t] = "body"
    /\ \E f \in BOOLEAN :
        /\ fault' = [fault EXCEPT ![t] = f]
        /\ panicking' = [panicking EXCEPT ![t] =
                            f /\ ~Recover(f, RecoverCalledByDeferredFunction)]
    /\ work > 0
    /\ ReleaseSlot
    /\ tpc' = [tpc EXCEPT ![t] = "released"]
    /\ UNCHANGED <<size, ctxDone, done, once, closes, running, worked, index, fatal>>
    /\ UNCHANGED <<res, atClosed, atCancelled, calls, exits>>
    /\ UNCHANGED <<ntasks, idx>>

TaskDecrementWrongSign(t) ==
    /\ Alive
    /\ tpc[t] = "released"
    /\ running' = running + 1
    /\ tpc' = [tpc EXCEPT ![t] = "decremented"]
    /\ UNCHANGED <<size, ctxDone, done, once, closes, work, worked, index, fatal>>
    /\ UNCHANGED subVars
    /\ UNCHANGED <<ntasks, fault, panicking, idx>>

TaskDecrementTwice(t) ==
    /\ Alive
    /\ tpc[t] = "released"
    /\ running' = running - 2
    /\ tpc' = [tpc EXCEPT ![t] = "decremented"]
    /\ UNCHANGED <<size, ctxDone, done, once, closes, work, worked, index, fatal>>
    /\ UNCHANGED subVars
    /\ UNCHANGED <<ntasks, fault, panicking, idx>>

\* Line 157, p.running.Add(-1).
TaskDecrement(t) ==
    /\ Alive
    /\ tpc[t] = "released"
    /\ running' = running - 1
    /\ tpc' = [tpc EXCEPT ![t] = "decremented"]
    /\ UNCHANGED <<size, ctxDone, done, once, closes, work, worked, index, fatal>>
    /\ UNCHANGED subVars
    /\ UNCHANGED <<ntasks, fault, panicking, idx>>

\* Line 158, p.worked.Add(1).
TaskWorked(t) ==
    /\ Alive
    /\ tpc[t] = "decremented"
    /\ worked' = worked + 1
    /\ tpc' = [tpc EXCEPT ![t] = "cleaned"]
    /\ UNCHANGED <<size, ctxDone, done, once, closes, work, running, index, fatal>>
    /\ UNCHANGED subVars
    /\ UNCHANGED <<ntasks, fault, panicking, idx>>

\* Line 162, the end of the goroutine.  A goroutine that returns normally
\* just ends (it stays at "cleaned"); a panic still in flight reaches the top
\* of the goroutine's stack and the Go runtime terminates the process.
TaskPanicExit(t) ==
    /\ Alive
    /\ tpc[t] = "cleaned"
    /\ panicking[t]
    /\ fatal' = "taskpanic"
    /\ UNCHANGED <<size, ctxDone, done, once, closes, work, running, worked, index>>
    /\ UNCHANGED subVars
    /\ UNCHANGED taskVars

----------------------------------------------------------------------------
Next ==
    \/ Exit
    \/ Cancel
    \/ \E s \in Subs : Call(s)
    \/ \E s \in Subs : Park(s)
    \/ \E s \in Subs : SelectCtx(s)
    \/ \E s \in Subs : SelectDone(s)
    \/ \E s \in Subs : SelectWork(s)
    \/ \E s \in Subs : Dispatch(s)
    \/ \E t \in Tasks : TaskStart(t)
    \/ \E t \in Tasks : TaskBody(t)
    \/ \E t \in Tasks : TaskDecrement(t)
    \/ \E t \in Tasks : TaskWorked(t)
    \/ \E t \in Tasks : TaskPanicExit(t)

Spec == Init /\ [][Next]_vars

\* One step of a submitter inside RunWithContextAndIndex, and of a task.
SubStep(s) ==
    Park(s) \/ SelectCtx(s) \/ SelectDone(s) \/ SelectWork(s) \/ Dispatch(s)

TaskStep(t) ==
    TaskStart(t) \/ TaskBody(t) \/ TaskDecrement(t) \/ TaskWorked(t) \/ TaskPanicExit(t)

\* What the Go scheduler guarantees: a goroutine that can take a step is
\* eventually run.  Nothing obliges the application to call Exit, to cancel
\* the context or to submit; task bodies are taken to end.
SubFair(s) == WF_vars(SubStep(s))

TaskFair(t) == WF_vars(TaskStep(t))

FairSpec ==
    /\ Spec
    /\ \A s \in Subs : SubFair(s)
    /\ \A t \in Tasks : TaskFair(t)

----------------------------------------------------------------------------
\* Vocabulary of the properties.

\* Tasks dispatched that have not released their slot.
Executing == {t \in Tasks : tpc[t] \in {"spawned", "body"}}
\* Tasks whose deferred function has run to its end.
Cleaned == {t \in Tasks : tpc[t] = "cleaned"}
\* Tasks counted in p.running.
Counted == {t \in Tasks : tpc[t] \in {"spawned", "body", "released"}}
Reserving == {s \in Subs : spc[s] = "reserved"}
Blocked(s) == spc[s] \in {"select", "parked"}
Open == ~ctxDone /\ ~done

\* A parked select has no ready case: the pool is open and p.work is full.
ParkedOnlyWhenNothingReady == Parked # {} => (Open /\ work = size)

----------------------------------------------------------------------------
\* C1: a submission that begins after p.done was closed is never admitted:
\* it never reserves a slot (the step after which it starts the task and
\* returns true).
C1_NoAdmissionAfterClosed ==
    \A s \in Subs : atClosed[s] => spc[s] # "reserved"

\* C2: on a pool of capacity 1, idle and open, a submission that begins after
\* the context was cancelled is never admitted.
C2_CancelledBeforeCallRejected ==
    \A s \in Subs :
        (size = 1 /\ atCancelled[s]) => spc[s] # "reserved"

\* C3: the tasks dispatched that still hold their slot are at most size.
C3_AtMostSizeExecuting == Cardinality(Executing) <= size

C3_Witness ==
    /\ size = 1
    /\ Cardinality(Executing) = size
    /\ \E s \in Subs : Blocked(s)

\* C4: p.running is always within 0..size.
C4_RunningInRange == running >= 0 /\ running <= size

\* C5: a panic of a task body never leaves the task's goroutine: the process
\* is never terminated by it.
C5_FaultDoesNotPropagate == fatal # "taskpanic"

\* C6: a task whose body panicked goes through the same exit as one that
\* returned: once its deferred function has run it holds no slot, is no
\* longer counted in running and is counted in worked; and the submission
\* that admits a task returns true.
C6_Ledger ==
    /\ \A t \in Tasks : fault[t] => tpc[t] \in {"released", "decremented", "cleaned"}
    /\ work = Cardinality(Executing) + Cardinality(Reserving)
    /\ running = Cardinality(Counted)
    /\ worked = Cardinality(Cleaned)

C6_FaultedTaskExitsLikeAny ==
    /\ [](C6_Ledger)
    /\ [][\A s \in Subs : (spc[s] = "reserved" /\ spc'[s] # "reserved")
                            => (res'[s] = "true" /\ ntasks' = ntasks + 1)]_vars

C6_Witness ==
    /\ Alive
    /\ \E t \in Tasks : fault[t] /\ tpc[t] = "cleaned"
    /\ \E t \in Tasks : ~fault[t] /\ tpc[t] = "cleaned"
    /\ worked = 2

\* C7: while the pool stays open, a submission facing a full admission
\* channel does not return as long as no task releases its slot; it leaves
\* the select only by reserving a slot and then returns true; and on a pool
\* of capacity >= 1 whose tasks finish it does so eventually, unless the pool
\* is shut down or the process dies.
C7_Step ==
    \A s \in Subs :
        /\ (Blocked(s) /\ Open /\ Open' /\ work = size /\ Executing' = Executing)
                => Blocked(s)'
        /\ (Blocked(s) /\ Open /\ Open' /\ ~Blocked(s)') => spc'[s] = "reserved"
        /\ (spc[s] = "reserved" /\ spc'[s] # "reserved") => res'[s] = "true"

C7_BlocksThenSucceeds ==
    /\ [][C7_Step]_vars
    /\ \A s \in Subs :
        (size >= 1 /\ Blocked(s)) ~> (res[s] = "true" \/ ~Open \/ ~Alive)

C7_Witness ==
    /\ size = 1
    /\ Open /\ Alive
    /\ ntasks = 2
    /\ tpc[1] \notin {"spawned", "body"}
    /\ tpc[2] \in {"spawned", "body"}
    /\ \A s \in Subs : res[s] = "true"

\* C8: a pool of capacity 0 admits nothing: no slot is ever reserved, no
\* submission returns true, no task is started; a submission stays blocked
\* while the pool is open and returns false once it is shut down.
C8_Never ==
    size = 0 =>
        /\ ntasks = 0 /\ work = 0
        /\ \A s \in Subs : spc[s] # "reserved" /\ res[s] # "true"

C8_CapacityZeroAdmitsNothing ==
    /\ [](C8_Never)
    /\ [][\A s \in Subs : (size = 0 /\ Blocked(s) /\ Open /\ Open') => Blocked(s)']_vars
    /\ \A s \in Subs : (size = 0 /\ spc[s] # "idle" /\ ~Open) ~> (res[s] = "false")

C8_Witness ==
    /\ size = 0
    /\ \E s \in Subs : res[s] = "false"
    /\ \E s \in Subs : Blocked(s)

\* C9: however many times Exit is called, and whichever submissions take the
\* cancelled-context branch, close(done) runs exactly once and never panics.
C9_ClosedExactlyOnce ==
    /\ closes <= 1
    /\ fatal # "closepanic"
    /\ done <=> (closes = 1)
    /\ exits >= 1 => done

C9_Witness ==
    /\ exits = 2
    /\ ctxDone
    /\ closes = 1
    /\ \E s \in Subs : res[s] = "false"

\* C10: a run ends only in the quiescent state: when no submission is in
\* progress and no task can take a step any more, every admitted task has
\* been counted: worked = number of admitted tasks, running = 0, and no
\* reservation is left.
C10_EndsQuiescent ==
    (/\ \A s \in Subs : spc[s] = "idle"
     /\ \/ ~Alive
        \/ \A t \in Tasks : tpc[t] \in {"none", "cleaned"} /\ ~panicking[t])
    => (worked = ntasks /\ running = 0 /\ work = 0)

\* Tasks whose goroutine has evaluated p.index.Add(1) (their body has begun).
Begun == {t \in Tasks : tpc[t] \notin {"none", "spawned"}}
\* Only submitter 1 has ever called: its calls are sequential, and task t is
\* the task of its t-th accepted submission.
OneCaller == \A s \in Subs \ {1} : spc[s] = "idle" /\ res[s] = "none"

\* C11: when one caller submits sequentially on a pool with room for all its
\* tasks, the task of the k-th accepted submission receives index k.
C11_IndexFollowsSubmissionOrder ==
    (OneCaller /\ size >= ntasks) => \A t \in Begun : idx[t] = t

\* C12: the indices received by the tasks that have begun are pairwise
\* distinct and are exactly 1..k for k begun tasks, and index = k.
C12_IndicesAreOneToK ==
    /\ index = Cardinality(Begun)
    /\ {idx[t] : t \in Begun} = 1..Cardinality(Begun)
    /\ \A t, u \in Begun : idx[t] = idx[u] => t = u
    /\ \A t \in Tasks \ Begun : idx[t] = 0

C12_Witness ==
    /\ Cardinality(Begun) = 2
    /\ idx[2] = 1 /\ idx[1] = 2

\* C13: a submission returns false only when the context is cancelled or
\* p.done is closed at that moment; while the pool stays open a submission
\* in the select does not return false.
C13_Step ==
    \A s \in Subs :
        /\ (res[s] # "false" /\ res'[s] = "false") => (ctxDone' \/ done')
        /\ (Blocked(s) /\ Open /\ Open') => res'[s] # "false"

C13_FalseOnlyOnShutdown ==
    /\ [](\A s \in Subs : res[s] = "false" => ~Open)
    /\ [](ParkedOnlyWhenNothingReady)
    /\ [][C13_Step]_vars

C13_Witness ==
    /\ size >= 1 /\ work = size
    /\ \E s \in Subs : res[s] = "false"
    /\ \E s \in Subs : res[s] = "true"

\* C14: a submission waiting in the select when Exit is called is resolved
\* by the close of p.done with the case <-p.done, whatever happens to the
\* slots afterwards; from there its only step is to return false, and it
\* takes it unless the process dies first.
C14_Step ==
    \A s \in Subs :
        /\ (spc[s] = "parked" /\ exits' = exits + 1) => spc'[s] = "donecase"
        /\ (spc[s] = "donecase" /\ spc'[s] # "donecase")
                => (spc'[s] = "idle" /\ res'[s] = "false")

C14_ExitRejectsBlocked ==
    /\ [][C14_Step]_vars
    /\ [](done => Parked = {})
    /\ \A s \in Subs : (spc[s] = "donecase") ~> (res[s] = "false" \/ ~Alive)

C14_Witness ==
    /\ exits = 1 /\ ~ctxDone
    /\ work < size
    /\ \E s \in Subs : spc[s] = "donecase"

\* Tasks between <-p.work (line 156) and p.running.Add(-1) (line 157).
Released == {t \in Tasks : tpc[t] = "released"}
\* Tasks between p.running.Add(-1) (line 157) and p.worked.Add(1) (line 158).
Decremented == {t \in Tasks : tpc[t] = "decremented"}

C16_Step ==
    /\ done => done'
    /\ (~done /\ done') =>
            \/ exits' = exits + 1
            \/ \E s \in Subs :
                    /\ ctxDone
                    /\ spc[s] \in {"select", "ctxcase"}
                    /\ spc'[s] = "idle" /\ res'[s] = "false"
    /\ (~ctxDone /\ ctxDone') => done' = done

C16_OpenToClosing == [][C16_Step]_vars

C16_Witness ==
    /\ done /\ ctxDone
    /\ exits = 0
    /\ \E s \in Subs : res[s] = "false"

\* C17: a step of Exit, of the cancellation, or of a submission that closes
\* p.done leaves p.work, running, worked, index and every task where it is;
\* in a closed pool every task that was started can still take its next
\* step, and all of them finish unless the process dies.
C17_Step ==
    (done' # done \/ ctxDone' # ctxDone \/ exits' # exits) =>
        /\ UNCHANGED <<work, running, worked, index>>
        /\ UNCHANGED taskVars

C17_Pending == {t \in Tasks : tpc[t] \in {"spawned", "body", "released", "decremented"}}

C17_DispatchedTasksUnaffected ==
    /\ [][C17_Step]_vars
    /\ [](\A t \in C17_Pending : Alive => ENABLED TaskStep(t))
    /\ (~Open) ~> (~Alive \/ C17_Pending = {})

C17_Witness ==
    /\ done /\ exits >= 1
    /\ ctxDone
    /\ \E t \in Tasks : tpc[t] = "body"
    /\ \E t \in Tasks : tpc[t] = "cleaned"

\* C18: running + worked falls short of the number of accepted submissions
\* exactly by the tasks that have executed running.Add(-1) but not yet
\* worked.Add(1), and such a state is reachable.
C18_CountersNotAtomic ==
    /\ running + worked = ntasks - Cardinality(Decremented)
    /\ running + worked <= ntasks

C18_Witness ==
    /\ Decremented # {}
    /\ running + worked < ntasks

\* C19: worked <= index <= number of submissions that reserved a slot, and
\* a task counted in worked has drawn its index.
C19_WorkedIndexReserved ==
    /\ worked <= index
    /\ index <= ntasks + Cardinality(Reserving)
    /\ \A t \in Cleaned : idx[t] # 0

C19_Witness ==
    /\ worked = 1
    /\ index = 1
    /\ ntasks = 2
    /\ \E t \in Tasks : tpc[t] = "spawned"

\* C20: running is at least the number of task bodies currently executing.
C20_RunningNeverUnderReports == running >= Cardinality(Executing)

C20_Witness ==
    /\ Cardinality(Executing) = 2
    /\ running = 2

====
